---- MODULE Spec2Model ----
(***************************************************************************)
(* FastBloomFilter v2: a scalable Bloom filter (a chain of fixed-capacity  *)
(* layers) as a state machine.  One action per Ruby method of the C        *)
(* extension; the layer mechanics, the hash and the sizing arithmetic are  *)
(* operators computed the way the C code computes them.                    *)
(***************************************************************************)
EXTENDS Integers, Sequences, FiniteSets, TLC

(***************************************************************************)
(* uint32_t arithmetic.  A 32-bit value is the pair <<hi, lo>> of its two  *)
(* 16-bit halves, so that no intermediate result leaves the integers the   *)
(* model checker can hold; every operation wraps modulo 2^32 as in C.      *)
(***************************************************************************)
W16 == 65536

RECURSIVE Pow2(_)
Pow2(n) == IF n = 0 THEN 1 ELSE 2 * Pow2(n - 1)

RECURSIVE XorN(_, _, _)
XorN(a, b, n) ==
    IF n = 0 THEN 0
    ELSE (((a % 2) + (b % 2)) % 2) + 2 * XorN(a \div 2, b \div 2, n - 1)

Xor32(x, y) == <<XorN(x[1], y[1], 16), XorN(x[2], y[2], 16)>>

Add32(x, y) ==
    LET lo == x[2] + y[2]
    IN  <<(x[1] + y[1] + (lo \div W16)) % W16, lo % W16>>

\* The full 32-bit product of two 16-bit values.
Mul16(a, b) ==
    LET p1  == a * (b \div 256)
        p0  == a * (b % 256)
        mid == ((p1 % 256) * 256) + p0
    IN  <<((p1 \div 256) + (mid \div W16)) % W16, mid % W16>>

Mul32(x, y) ==
    LET ll == Mul16(x[2], y[2])
        hl == Mul16(x[1], y[2])[2]
        lh == Mul16(x[2], y[1])[2]
    IN  <<(ll[1] + hl + lh) % W16, ll[2]>>

Shl32(x, r) ==
    IF r >= 16 THEN <<(x[2] * Pow2(r - 16)) % W16, 0>>
    ELSE <<((x[1] * Pow2(r)) % W16) + (x[2] \div Pow2(16 - r)),
           (x[2] * Pow2(r)) % W16>>

Shr32(x, r) ==
    IF r >= 16 THEN <<0, x[1] \div Pow2(r - 16)>>
    ELSE <<x[1] \div Pow2(r),
           (x[2] \div Pow2(r)) + ((x[1] % Pow2(r)) * Pow2(16 - r))>>

\* (x << r) | (x >> (32 - r)): the two parts share no bit.
Rotl32(x, r) ==
    LET a == Shl32(x, r)
        b == Shr32(x, 32 - r)
    IN  <<a[1] + b[1], a[2] + b[2]>>

\* (a * b) % n and <<(a * b) \div d, (a * b) % d>> for products that do not
\* fit the integers of the model checker: a is taken bit by bit.
RECURSIVE MulMod(_, _, _)
MulMod(a, b, n) ==
    IF a = 0 THEN 0
    ELSE ((2 * MulMod(a \div 2, b, n)) + ((a % 2) * b)) % n

RECURSIVE MulDiv(_, _, _)
MulDiv(a, b, d) ==
    IF a = 0 THEN <<0, 0>>
    ELSE LET h == MulDiv(a \div 2, b, d)
             r == (2 * h[2]) + ((a % 2) * b)
         IN  <<(2 * h[1]) + (r \div d), r % d>>

\* x % n for a size_t n.
Mod32(x, n) ==
    IF n < 32768 THEN (((x[1] % n) * (W16 % n)) + x[2]) % n
    ELSE (MulMod(x[1] % n, W16 % n, n) + x[2]) % n

(***************************************************************************)
(* MurmurHash3, 32 bit.  key is a sequence of bytes; the 4-byte blocks are *)
(* read little-endian.                                                     *)
(***************************************************************************)
c1 == <<52382, 11601>>   \* 0xcc9e2d51
c2 == <<7047, 13715>>    \* 0x1b873593
SEED1 == <<38727, 45708>>   \* 0x9747b28c
SEED2 == <<23505, 59797>>   \* 0x5bd1e995

MixK1(k) == Mul32(Rotl32(Mul32(k, c1), 15), c2)

Block(key, i) ==
    <<(key[4 * i + 4] * 256) + key[4 * i + 3], (key[4 * i + 2] * 256) + key[4 * i + 1]>>

RECURSIVE Blocks(_, _, _, _)
Blocks(key, i, nblocks, h) ==
    IF i >= nblocks THEN h
    ELSE LET h1 == Xor32(h, MixK1(Block(key, i)))
             h2 == Rotl32(h1, 13)
             h3 == Add32(Mul32(h2, <<0, 5>>), <<58964, 27492>>)   \* 0xe6546b64
         IN  Blocks(key, i + 1, nblocks, h3)

TailMix(key, nblocks, h) ==
    LET rem == Len(key) % 4
        t(j) == key[4 * nblocks + j]
        k3 == IF rem >= 3 THEN <<t(3), 0>> ELSE <<0, 0>>
        k2 == IF rem >= 2 THEN Xor32(k3, <<0, t(2) * 256>>) ELSE k3
        k1 == IF rem >= 1 THEN Xor32(k2, <<0, t(1)>>) ELSE k2
    IN  IF rem = 0 THEN h ELSE Xor32(h, MixK1(k1))

Fmix(h, len) ==
    LET a == Xor32(h, <<0, len>>)
        b == Xor32(a, Shr32(a, 16))
        c == Mul32(b, <<34283, 51819>>)    \* 0x85ebca6b
        d == Xor32(c, Shr32(c, 13))
        e == Mul32(d, <<49842, 44597>>)    \* 0xc2b2ae35
    IN  Xor32(e, Shr32(e, 16))

murmur3_32(key, seed) ==
    LET nblocks == Len(key) \div 4
    IN  Fmix(TailMix(key, nblocks, Blocks(key, 0, nblocks, seed)), Len(key))

(***************************************************************************)
(* Bounds of the model.                                                    *)
(***************************************************************************)
\* Elements are byte strings: "a" and "item1" (one 4-byte block and a tail).
Elems == {<<97>>, <<105, 116, 101, 109, 49>>}
\* The filters of the program and the arguments each is constructed with;
\* error_rate and tightening are written in thousandths: 10 is 0.01.
Filters == {1, 2}
Config ==
    [f \in Filters |->
       IF f = 1 THEN [error_rate |-> 10, tightening |-> 850, initial_capacity |-> 1]
       ELSE [error_rate |-> 1, tightening |-> 500, initial_capacity |-> 3]]
\* Calls are offered while fewer than MaxCalls have been made, and only calls
\* that leave every filter with at most MaxLayers layers.
MaxCalls == 5
MaxLayers == 5
\* The same for the specification of the growth schedule, which needs twelve
\* layers and more.
MaxCallsG == 9
MaxLayersG == 14

(***************************************************************************)
(* Constants of the program.                                               *)
(***************************************************************************)
MAX_HASHES == 20
MIN_HASHES == 1
\* The sane minimum of bits_count in layer_create.
MIN_BITS == 64
\* ln2 and ln2 * ln2 of layer_create, in millionths.
LN2 == 693147
LN2_SQ == 480453
\* -ln(1e-15) in millionths: the floor of the layer error rate.
FPR_FLOOR == 34538776

\* Mutant of growth_factor: the last tier (1.25) is missing.
growth_factor_three_tiers(num_layers) ==
    IF num_layers < 4 THEN 200
    ELSE IF num_layers < 8 THEN 175
    ELSE 150

\* growth_factor, in hundredths.
growth_factor(num_layers) ==
    IF num_layers < 4 THEN 200
    ELSE IF num_layers < 8 THEN 175
    ELSE IF num_layers < 12 THEN 150
    ELSE 125

(***************************************************************************)
(* Bit helpers: bits is the set of the positions of the bits that are set  *)
(* (bit pos % 8 of byte pos / 8).                                          *)
(***************************************************************************)
set_bit(bits, pos) == bits \cup {pos}

get_bit(bits, pos) == pos \in bits

(***************************************************************************)
(* Layer lifecycle.                                                        *)
(***************************************************************************)
\* -ln(x / 1000) in millionths, for the thousandths the configurations use:
\* the values of log() for error_rate, 1 - tightening and tightening.
NegLn(x) ==
    CASE x = 1   -> 6907755
      [] x = 10  -> 4605170
      [] x = 150 -> 1897120
      [] x = 500 -> 693147
      [] x = 850 -> 162519
      [] x = 999 -> 1001

\* bits_count, truncated by the cast to size_t; negln is -log(error_rate).
layer_bits_count(capacity, negln) ==
    LET bits_count == MulDiv(capacity, negln, LN2_SQ)[1]
    IN  IF bits_count < MIN_BITS THEN MIN_BITS ELSE bits_count

\* Mutant of layer_num_hashes: rounded to the nearest integer, not truncated.
layer_num_hashes_round(bits_count, capacity) ==
    LET k == (MulDiv(bits_count, 2 * LN2, capacity)[1] + 1000000) \div 2000000
    IN  IF k < MIN_HASHES THEN MIN_HASHES
        ELSE IF k > MAX_HASHES THEN MAX_HASHES
        ELSE k

\* num_hashes, truncated by the cast to int, then clamped.
layer_num_hashes(bits_count, capacity) ==
    LET k == MulDiv(bits_count, LN2, capacity)[1] \div 1000000
    IN  IF k < MIN_HASHES THEN MIN_HASHES
        ELSE IF k > MAX_HASHES THEN MAX_HASHES
        ELSE k

\* Mutant of layer_create: the bits are allocated by malloc and not cleared,
\* so they hold what the memory at that address held before.
layer_create_malloc(capacity, negln, at) ==
    LET bits_count == layer_bits_count(capacity, negln)
    IN  [ at         |-> at,
          size       |-> (bits_count + 7) \div 8,
          capacity   |-> capacity,
          count      |-> 0,
          num_hashes |-> layer_num_hashes(bits_count, capacity),
          bits       |-> IF at[1] = 1 THEN {} ELSE {0} ]

\* at is the address calloc returns for the BloomLayer; the bits of a layer
\* are allocated with it and freed with it, so one address stands for both.
layer_create(capacity, negln, at) ==
    LET bits_count == layer_bits_count(capacity, negln)
    IN  [ at         |-> at,
          size       |-> (bits_count + 7) \div 8,
          capacity   |-> capacity,
          count      |-> 0,
          num_hashes |-> layer_num_hashes(bits_count, capacity),
          bits       |-> {} ]

\* Mutant of layer_is_full: full only once the capacity is exceeded.
layer_is_full_late(layer) == layer.count > layer.capacity

layer_is_full(layer) == layer.count >= layer.capacity

\* Mutant of probe: h1 + i * h2 is not reduced to 32 bits before the modulo.
probe_no_wrap(h1, h2, i, bits_count) ==
    (Mod32(h1, bits_count) + (i * Mod32(h2, bits_count))) % bits_count

\* uint32_t combined = h1 + (uint32_t)i * h2; combined % bits_count.
probe(h1, h2, i, bits_count) == Mod32(Add32(h1, Mul32(<<0, i>>, h2)), bits_count)

\* h1 and h2 of every element, hashed once.
Hash1 == [e \in Elems |-> murmur3_32(e, SEED1)]
Hash2 == [e \in Elems |-> murmur3_32(e, SEED2)]

RECURSIVE set_probes(_, _, _, _, _, _)
set_probes(bits, h1, h2, i, num_hashes, bits_count) ==
    IF i >= num_hashes THEN bits
    ELSE set_probes(set_bit(bits, probe(h1, h2, i, bits_count)),
                    h1, h2, i + 1, num_hashes, bits_count)

layer_add(layer, data) ==
    LET bits_count == layer.size * 8
    IN  [layer EXCEPT
           !.bits  = set_probes(layer.bits, Hash1[data], Hash2[data], 0,
                                layer.num_hashes, bits_count),
           !.count = layer.count + 1]

layer_include(layer, data) ==
    LET bits_count == layer.size * 8
    IN  \A i \in 0 .. (layer.num_hashes - 1) :
            get_bit(layer.bits, probe(Hash1[data], Hash2[data], i, bits_count))

layer_bits_set(layer) == Cardinality(layer.bits)

(***************************************************************************)
(* Scalable filter helpers.  A filter is the record of ScalableBloom, its  *)
(* layers the sequence layers[0 .. num_layers - 1]; at is its address.     *)
(***************************************************************************)
num_layers(sb) == Len(sb.layers)

\* The address the allocator returns for the layer that becomes layers[n] of
\* the filter sb.  An allocator returns any address no live object has; which
\* one makes no difference, so the model takes <<sb.at, n + 1>>.
fresh(sb, n) == <<sb.at, n + 1>>

\* -ln of error_rate * (1 - r) * r^index, in millionths.
layer_error_rate(total_fpr, r, index) ==
    NegLn(total_fpr) + NegLn(1000 - r) + (index * NegLn(r))

(***************************************************************************)
(* The error rate of a layer as an exact number.  A number below 1 is the  *)
(* sequence of its first DecLen digits to the base 1000 after the point:   *)
(* 0.001 is <<1, 0, ...>> and 1e-15 is <<0, 0, 0, 0, 1, 0, ...>>.          *)
(***************************************************************************)
DecLen == 8

RECURSIVE DecZeros(_)
DecZeros(n) == IF n = 0 THEN <<>> ELSE <<0>> \o DecZeros(n - 1)

\* x / 1000 for an integer 0 <= x < 1000.
DecOfThousandths(x) == <<x>> \o DecZeros(DecLen - 1)

\* The carry out of digit k of a + b, followed by the digits k .. DecLen.
RECURSIVE DecAddFrom(_, _, _)
DecAddFrom(a, b, k) ==
    IF k > DecLen THEN <<0>>
    ELSE LET t == DecAddFrom(a, b, k + 1)
             d == a[k] + b[k] + t[1]
         IN  <<d \div 1000, d % 1000>> \o Tail(t)

DecAdd(a, b) == Tail(DecAddFrom(a, b, 1))

\* The same for a * m, for an integer 0 <= m < 1000.
RECURSIVE DecMulFrom(_, _, _)
DecMulFrom(a, m, k) ==
    IF k > DecLen THEN <<0>>
    ELSE LET t == DecMulFrom(a, m, k + 1)
             d == (a[k] * m) + t[1]
         IN  <<d \div 1000, d % 1000>> \o Tail(t)

\* a * m / 1000: the digits of a * m moved one place, the last one dropped.
DecScale(a, m) == SubSeq(DecMulFrom(a, m, 1), 1, DecLen)

RECURSIVE DecLessFrom(_, _, _)
DecLessFrom(a, b, k) ==
    IF k > DecLen THEN FALSE
    ELSE IF a[k] # b[k] THEN a[k] < b[k]
    ELSE DecLessFrom(a, b, k + 1)

DecLess(a, b) == DecLessFrom(a, b, 1)

\* 1e-15, the floor of scalable_add_layer.
RATE_FLOOR == DecZeros(4) \o <<1>> \o DecZeros(DecLen - 5)

\* total_fpr * (1.0 - r) * pow(r, index), total_fpr and r in thousandths.
RECURSIVE layer_error_rate_exact(_, _, _)
layer_error_rate_exact(total_fpr, r, index) ==
    IF index = 0 THEN DecScale(DecOfThousandths(total_fpr), 1000 - r)
    ELSE DecScale(layer_error_rate_exact(total_fpr, r, index - 1), r)

\* The error rate scalable_add_layer passes to layer_create for layers[index].
layer_target_rate(sb, index) ==
    LET fpr == layer_error_rate_exact(sb.error_rate, sb.tightening, index)
    IN  IF DecLess(fpr, RATE_FLOOR) THEN RATE_FLOOR ELSE fpr

\* alloc: "ok", "layer" (layer_create returns NULL) or "realloc" (the layer
\* list cannot grow).  Returns the filter and whether a layer was added.
scalable_add_layer(sb, alloc) ==
    LET n       == num_layers(sb)
        new_cap == IF n = 0 THEN sb.initial_capacity
                   ELSE (sb.layers[n].capacity * growth_factor(n)) \div 100
        rate    == layer_error_rate(sb.error_rate, sb.tightening, n)
        fpr     == IF rate > FPR_FLOOR THEN FPR_FLOOR ELSE rate
        layer   == layer_create(new_cap, fpr, fresh(sb, n))
        grow    == n >= sb.layers_cap
        slots   == IF sb.layers_cap = 0 THEN 4 ELSE sb.layers_cap * 2
    IN  IF alloc = "layer" THEN [sb |-> sb, ok |-> FALSE]
        ELSE IF grow /\ alloc = "realloc" THEN [sb |-> sb, ok |-> FALSE]
        ELSE [sb |-> [sb EXCEPT !.layers = Append(sb.layers, layer),
                                !.layers_cap = IF grow THEN slots ELSE @],
              ok |-> TRUE]

(***************************************************************************)
(* Ruby methods, as functions of the filter.  raised is TRUE when the      *)
(* method leaves by rb_raise; sb is then the filter as the method left it. *)
(***************************************************************************)
\* bloom_alloc: the calloc'ed ScalableBloom, at the address at.
bloom_alloc(at) ==
    [ at |-> at, layers |-> <<>>, layers_cap |-> 0, error_rate |-> 0,
      tightening |-> 0, initial_capacity |-> 0, total_count |-> 0 ]

\* (size_t)NUM2LONG(v): the 64 bits of the long read as an unsigned number,
\* written as its four 16-bit limbs, the most significant first.
size_t_of_long(v) ==
    LET sign == IF v < 0 THEN W16 - 1 ELSE 0
    IN  <<sign, sign, (v \div W16) % W16, v % W16>>

\* A size_t below 2^31 is an integer of the model.
size_t_is_int(c) == c[1] = 0 /\ c[2] = 0 /\ c[3] < (W16 \div 2)
size_t_value(c) == (c[3] * W16) + c[4]

\* layer_create for a capacity of 2^63 and more.  -capacity * log(error_rate)
\* / ln2_sq is then 2^64 or more for the error rates of the model (all below
\* 0.6), and its conversion to size_t is undefined.  cast is what the
\* conversion yields: "zero" (the SSE2 code of x86-64), which is raised to
\* the minimum of 64 bits, or "saturated" (AVX-512, AArch64), 2^64 - 1, to
\* which the 7 of (bits_count + 7) / 8 is added modulo 2^64: the size is 0.
\* bits_count / (double)capacity is below 1.5 either way, so there is one
\* hash.  Where the allocation of the bits fails alloc is "layer".
layer_create_wrapped(capacity, at, cast) ==
    LET low == IF cast = "zero" THEN MIN_BITS ELSE W16 - 1
    IN  [ at |-> at, size |-> ((low + 7) % W16) \div 8, capacity |-> capacity,
          count |-> 0, num_hashes |-> MIN_HASHES, bits |-> {} ]

\* self is the object bloom_alloc has made.  error is the exception raised.
bloom_initialize(self, error_rate, initial_capacity, tightening, alloc, cast) ==
    LET cap == size_t_of_long(initial_capacity)
        invalid == [sb |-> self, raised |-> TRUE, error |-> "ArgumentError"]
    IN  IF error_rate <= 0 \/ error_rate >= 1000 THEN invalid
        ELSE IF cap = <<0, 0, 0, 0>> THEN invalid
        ELSE IF tightening <= 0 \/ tightening >= 1000 THEN invalid
        ELSE IF size_t_is_int(cap)
        THEN LET sb == [self EXCEPT !.error_rate = error_rate,
                                    !.initial_capacity = size_t_value(cap),
                                    !.tightening = tightening,
                                    !.total_count = 0]
                 r  == scalable_add_layer(sb, alloc)
             IN  [sb |-> r.sb, raised |-> ~r.ok,
                  error |-> IF r.ok THEN "none" ELSE "NoMemoryError"]
        ELSE LET sb == [self EXCEPT !.error_rate = error_rate,
                                    !.initial_capacity = cap,
                                    !.tightening = tightening,
                                    !.total_count = 0]
             IN  IF alloc = "ok"
                 THEN [sb |-> [sb EXCEPT
                                 !.layers = <<layer_create_wrapped(cap, fresh(sb, 0),
                                                                       cast)>>,
                                 !.layers_cap = 4],
                       raised |-> FALSE, error |-> "none"]
                 ELSE [sb |-> sb, raised |-> TRUE, error |-> "NoMemoryError"]

\* Mutant of bloom_add: total_count is not incremented.
bloom_add_no_count(sb, str, alloc) ==
    LET n      == num_layers(sb)
        full   == layer_is_full(sb.layers[n])
        r      == IF full THEN scalable_add_layer(sb, alloc) ELSE [sb |-> sb, ok |-> TRUE]
        m      == num_layers(r.sb)
    IN  IF ~r.ok THEN [sb |-> sb, raised |-> TRUE]
        ELSE [sb |-> [r.sb EXCEPT !.layers[m] = layer_add(@, str)],
              raised |-> FALSE]

\* Mutant of bloom_add: total_count is incremented before the layer is grown.
bloom_add_count_first(sb, str, alloc) ==
    LET counted == [sb EXCEPT !.total_count = @ + 1]
        n      == num_layers(sb)
        full   == layer_is_full(sb.layers[n])
        r      == IF full THEN scalable_add_layer(counted, alloc)
                  ELSE [sb |-> counted, ok |-> TRUE]
        m      == num_layers(r.sb)
    IN  IF ~r.ok THEN [sb |-> counted, raised |-> TRUE]
        ELSE [sb |-> [r.sb EXCEPT !.layers[m] = layer_add(@, str)],
              raised |-> FALSE]

\* Mutant of bloom_add: the active layer is not tested for being full.
bloom_add_unchecked(sb, str, alloc) ==
    [sb |-> [sb EXCEPT !.layers[num_layers(sb)] = layer_add(@, str),
                       !.total_count = @ + 1],
     raised |-> FALSE]

\* Mutant of bloom_add: after growth the element is still put into the layer
\* that was last before it.
bloom_add_stale(sb, str, alloc) ==
    LET n      == num_layers(sb)
        full   == layer_is_full(sb.layers[n])
        r      == IF full THEN scalable_add_layer(sb, alloc) ELSE [sb |-> sb, ok |-> TRUE]
    IN  IF ~r.ok THEN [sb |-> sb, raised |-> TRUE]
        ELSE [sb |-> [r.sb EXCEPT !.layers[n] = layer_add(@, str),
                                  !.total_count = @ + 1],
              raised |-> FALSE]

\* Requires num_layers >= 1: layers[num_layers - 1] is read first.
bloom_add(sb, str, alloc) ==
    LET n      == num_layers(sb)
        full   == layer_is_full(sb.layers[n])
        r      == IF full THEN scalable_add_layer(sb, alloc) ELSE [sb |-> sb, ok |-> TRUE]
        m      == num_layers(r.sb)
    IN  IF ~r.ok THEN [sb |-> sb, raised |-> TRUE]
        ELSE [sb |-> [r.sb EXCEPT !.layers[m] = layer_add(@, str),
                                  !.total_count = @ + 1],
              raised |-> FALSE]

\* Mutant of bloom_include: only the newest layer is asked.
bloom_include_newest(sb, str) ==
    /\ num_layers(sb) >= 1
    /\ layer_include(sb.layers[num_layers(sb)], str)

bloom_include(sb, str) ==
    \E i \in 1 .. num_layers(sb) : layer_include(sb.layers[i], str)

\* Mutant of bloom_clear: total_count is not reset.
bloom_clear_keep_count(sb, alloc) ==
    LET freed == [sb EXCEPT !.layers = <<>>]
        r     == scalable_add_layer(freed, alloc)
    IN  [sb |-> r.sb, raised |-> ~r.ok]

bloom_clear(sb, alloc) ==
    LET freed == [sb EXCEPT !.layers = <<>>, !.total_count = 0]
        r     == scalable_add_layer(freed, alloc)
    IN  [sb |-> r.sb, raised |-> ~r.ok]

RECURSIVE SumSeq(_, _)
SumSeq(seq, i) == IF i = 0 THEN 0 ELSE seq[i] + SumSeq(seq, i - 1)

\* The hash stats returns.  A fill_ratio is the pair <<bits set, bits>> its
\* double is the quotient of; an error_rate of a layer is -ln of it, in
\* millionths, as layer_error_rate gives it (not floored).
bloom_stats(sb) ==
    LET n  == num_layers(sb)
        lh == [i \in 1 .. n |->
                 LET l  == sb.layers[i]
                     bs == layer_bits_set(l)
                     tb == l.size * 8
                 IN  [ layer |-> i - 1, capacity |-> l.capacity, count |-> l.count,
                       size_bytes |-> l.size, num_hashes |-> l.num_hashes,
                       bits_set |-> bs, total_bits |-> tb, fill_ratio |-> <<bs, tb>>,
                       error_rate |-> layer_error_rate(sb.error_rate, sb.tightening,
                                                       i - 1) ]]
        total_bytes    == SumSeq([i \in 1 .. n |-> lh[i].size_bytes], n)
        total_bits     == SumSeq([i \in 1 .. n |-> lh[i].total_bits], n)
        total_bits_set == SumSeq([i \in 1 .. n |-> lh[i].bits_set], n)
    IN  [ total_count |-> sb.total_count, num_layers |-> n,
          total_bytes |-> total_bytes, total_bits |-> total_bits,
          total_bits_set |-> total_bits_set,
          fill_ratio |-> <<total_bits_set, total_bits>>,
          error_rate |-> sb.error_rate, layers |-> lh ]

bloom_count(sb) == sb.total_count

bloom_num_layers(sb) == num_layers(sb)

\* Mutant of copy_layer: the bits are allocated and not copied.
copy_layer_no_memcpy(src, at) ==
    [ at |-> at, size |-> src.size, capacity |-> src.capacity, count |-> src.count,
      num_hashes |-> src.num_hashes, bits |-> {} ]

\* Mutant of copy_layer: the copy starts with count 0.
copy_layer_recount(src, at) ==
    [ at |-> at, size |-> src.size, capacity |-> src.capacity, count |-> 0,
      num_hashes |-> src.num_hashes, bits |-> src.bits ]

\* Mutant of copy_layer: the pointer to the layer is appended, not a copy.
copy_layer_shared(src, at) == src

\* The copy bloom_merge makes of a layer, at the address calloc returns: the
\* fields and, by memcpy, the bits.
copy_layer(src, at) ==
    [ at |-> at, size |-> src.size, capacity |-> src.capacity, count |-> src.count,
      num_hashes |-> src.num_hashes, bits |-> src.bits ]

\* Mutant of merge_loop: total_count is left as it was.
RECURSIVE merge_loop_no_total(_, _, _, _, _)
merge_loop_no_total(sb1, sb2, i, failAt, failKind) ==
    IF i >= num_layers(sb2)
    THEN [sb |-> sb1, raised |-> FALSE]
    ELSE LET src   == sb2.layers[i + 1]
             copy  == copy_layer(src, fresh(sb1, num_layers(sb1)))
             grow  == num_layers(sb1) >= sb1.layers_cap
             slots == IF sb1.layers_cap = 0 THEN 4 ELSE sb1.layers_cap * 2
         IN  IF i = failAt /\ failKind = "copy" THEN [sb |-> sb1, raised |-> TRUE]
             ELSE IF i = failAt /\ failKind = "realloc" /\ grow
                  THEN [sb |-> sb1, raised |-> TRUE]
             ELSE merge_loop_no_total([sb1 EXCEPT !.layers = Append(@, copy),
                                                  !.layers_cap = IF grow THEN slots ELSE @],
                                      sb2, i + 1, failAt, failKind)

\* The loop of bloom_merge from iteration i on, for other # self.  failAt is
\* the iteration in which an allocation fails (-1: none), failKind is "copy"
\* (calloc of the copy or malloc of its bits) or "realloc".
RECURSIVE merge_loop(_, _, _, _, _)
merge_loop(sb1, sb2, i, failAt, failKind) ==
    IF i >= num_layers(sb2)
    THEN [sb |-> [sb1 EXCEPT !.total_count = @ + sb2.total_count], raised |-> FALSE]
    ELSE LET src   == sb2.layers[i + 1]
             copy  == copy_layer(src, fresh(sb1, num_layers(sb1)))
             grow  == num_layers(sb1) >= sb1.layers_cap
             slots == IF sb1.layers_cap = 0 THEN 4 ELSE sb1.layers_cap * 2
         IN  IF i = failAt /\ failKind = "copy" THEN [sb |-> sb1, raised |-> TRUE]
             ELSE IF i = failAt /\ failKind = "realloc" /\ grow
                  THEN [sb |-> sb1, raised |-> TRUE]
             ELSE merge_loop([sb1 EXCEPT !.layers = Append(@, copy),
                                         !.layers_cap = IF grow THEN slots ELSE @],
                             sb2, i + 1, failAt, failKind)

bloom_merge(sb1, sb2, failAt, failKind) == merge_loop(sb1, sb2, 0, failAt, failKind)

\* The loop of bloom_merge from iteration i on, for other = self.  sb2 is
\* then sb1: the bound sb2->num_layers of the loop is read anew before every
\* iteration and grows with every copy appended, and the layer copied in
\* iteration i may itself be a copy.  The loop is left only by rb_raise: in
\* iteration failAt when failKind is "copy", in the first iteration from
\* failAt on that must enlarge the layer list when it is "realloc".
RECURSIVE merge_self_loop(_, _, _, _)
merge_self_loop(sb1, i, failAt, failKind) ==
    IF i >= num_layers(sb1)
    THEN [sb |-> [sb1 EXCEPT !.total_count = @ + sb1.total_count], raised |-> FALSE]
    ELSE LET src   == sb1.layers[i + 1]
             copy  == copy_layer(src, fresh(sb1, num_layers(sb1)))
             grow  == num_layers(sb1) >= sb1.layers_cap
             slots == IF sb1.layers_cap = 0 THEN 4 ELSE sb1.layers_cap * 2
         IN  IF i = failAt /\ failKind = "copy" THEN [sb |-> sb1, raised |-> TRUE]
             ELSE IF i >= failAt /\ failKind = "realloc" /\ grow
                  THEN [sb |-> sb1, raised |-> TRUE]
             ELSE merge_self_loop([sb1 EXCEPT !.layers = Append(@, copy),
                                              !.layers_cap = IF grow THEN slots ELSE @],
                                  i + 1, failAt, failKind)

(***************************************************************************)
(* The state machine.                                                      *)
(***************************************************************************)
VARIABLES
    filters,    \* the ScalableBloom of every filter
    added,      \* history: elements add has inserted since the last clear call
    adds,       \* history: successful add calls since the last clear call
    merged,     \* history: counts merged in by merge! since the last clear call
    pure,       \* history: nothing but add has been called since construction
    last,       \* history: the last call, its arguments and its outcome
    crashed,    \* the process has left defined behaviour
    calls       \* history: the number of calls made

vars == <<filters, added, adds, merged, pure, last, crashed, calls>>

\* The call self.op(arg), where arg is an element or a filter (0: none);
\* n0 and count0 are num_layers and count of self before the call.
\* result is what the call returns, or the exception it raises.
Call(op, self, arg, raised) ==
    [ op |-> op, self |-> self, arg |-> arg, raised |-> raised,
      n0 |-> num_layers(filters[self]), count0 |-> filters[self].total_count,
      result |-> IF raised THEN "NoMemoryError"
                 ELSE IF op = "add" THEN TRUE
                 ELSE IF op = "clear" THEN "nil"
                 ELSE self ]

\* The memory after a call on filter f that has left it as sb: the layers
\* are reached through pointers, so what the call has written to the layer
\* at an address is what every filter finds that holds this address.
Store(fs, f, sb) ==
    [g \in Filters |->
       IF g = f THEN sb
       ELSE LET ls == fs[g].layers
                written(i) == {j \in 1 .. num_layers(sb) : sb.layers[j].at = ls[i].at}
            IN  [fs[g] EXCEPT !.layers =
                   [i \in 1 .. Len(ls) |->
                      IF written(i) = {} THEN ls[i]
                      ELSE sb.layers[CHOOSE j \in written(i) : TRUE]]]]

\* Filter.new with the arguments config[f], for every filter f.
Constructed(config) ==
    [f \in Filters |->
       bloom_initialize(bloom_alloc(f), config[f].error_rate,
                        config[f].initial_capacity, config[f].tightening, "ok",
                        "zero").sb]

\* No call has been made.
NoHistory ==
    /\ added = [f \in Filters |-> {}]
    /\ adds = [f \in Filters |-> 0]
    /\ merged = [f \in Filters |-> 0]
    /\ pure = [f \in Filters |-> TRUE]
    /\ last = [ op |-> "new", self |-> 0, arg |-> 0, raised |-> FALSE,
                n0 |-> 0, count0 |-> 0, result |-> 0 ]
    /\ crashed = FALSE
    /\ calls = 0

Init ==
    /\ filters = Constructed(Config)
    /\ NoHistory

\* filter.add(e) returns true.
Add(f, e) ==
    LET sb == filters[f]
        r  == bloom_add(sb, e, "ok")
    IN  /\ ~crashed
        /\ num_layers(sb) >= 1
        /\ ~r.raised
        /\ filters' = Store(filters, f, r.sb)
        /\ added' = [added EXCEPT ![f] = @ \cup {e}]
        /\ adds' = [adds EXCEPT ![f] = @ + 1]
        /\ last' = Call("add", f, e, FALSE)
        /\ UNCHANGED <<merged, pure, crashed>>

\* filter.add(e) raises NoMemoryError: an allocation of the new layer fails.
AddFail(f, e, alloc) ==
    LET sb == filters[f]
        r  == bloom_add(sb, e, alloc)
    IN  /\ ~crashed
        /\ num_layers(sb) >= 1
        /\ r.raised
        /\ filters' = Store(filters, f, r.sb)
        /\ last' = Call("add", f, e, TRUE)
        /\ UNCHANGED <<added, adds, merged, pure, crashed>>

\* filter.add(e) on a filter without a layer reads layers[-1], which is no
\* element of the array: the process dies or its memory is corrupted, or the
\* word read there happens to look like a full layer and add grows a layer.
AddNoLayer(f, e) ==
    LET sb == filters[f]
        r  == scalable_add_layer(sb, "ok")
    IN  /\ ~crashed
        /\ num_layers(sb) = 0
        /\ \/ /\ crashed' = TRUE
              /\ last' = Call("add", f, e, TRUE)
              /\ UNCHANGED <<filters, added, adds>>
           \/ /\ filters' = Store(filters, f,
                               [r.sb EXCEPT !.layers[1] = layer_add(@, e),
                                            !.total_count = @ + 1])
              /\ added' = [added EXCEPT ![f] = @ \cup {e}]
              /\ adds' = [adds EXCEPT ![f] = @ + 1]
              /\ last' = Call("add", f, e, FALSE)
              /\ UNCHANGED crashed
        /\ UNCHANGED <<merged, pure>>

\* filter.clear returns nil.
Clear(f) ==
    LET sb == filters[f]
        r  == bloom_clear(sb, "ok")
    IN  /\ ~crashed
        /\ ~r.raised
        /\ filters' = Store(filters, f, r.sb)
        /\ added' = [added EXCEPT ![f] = {}]
        /\ adds' = [adds EXCEPT ![f] = 0]
        /\ merged' = [merged EXCEPT ![f] = 0]
        /\ pure' = [pure EXCEPT ![f] = FALSE]
        /\ last' = Call("clear", f, 0, FALSE)
        /\ UNCHANGED crashed

\* filter.clear raises NoMemoryError: an allocation of the fresh layer fails.
ClearFail(f, alloc) ==
    LET sb == filters[f]
        r  == bloom_clear(sb, alloc)
    IN  /\ ~crashed
        /\ r.raised
        /\ filters' = Store(filters, f, r.sb)
        /\ added' = [added EXCEPT ![f] = {}]
        /\ adds' = [adds EXCEPT ![f] = 0]
        /\ merged' = [merged EXCEPT ![f] = 0]
        /\ pure' = [pure EXCEPT ![f] = FALSE]
        /\ last' = Call("clear", f, 0, TRUE)
        /\ UNCHANGED crashed

\* a.merge!(b) returns a, for two different filters.
Merge(a, b) ==
    LET sb1 == filters[a]
        sb2 == filters[b]
        r   == bloom_merge(sb1, sb2, -1, "copy")
    IN  /\ ~crashed
        /\ a # b
        /\ ~r.raised
        /\ filters' = Store(filters, a, r.sb)
        /\ merged' = [merged EXCEPT ![a] = @ + bloom_count(sb2)]
        /\ pure' = [pure EXCEPT ![a] = FALSE]
        /\ last' = Call("merge!", a, b, FALSE)
        /\ UNCHANGED <<added, adds, crashed>>

\* a.merge!(b) raises NoMemoryError in iteration failAt of its loop.
MergeFail(a, b, failAt, failKind) ==
    LET sb1 == filters[a]
        sb2 == filters[b]
        r   == bloom_merge(sb1, sb2, failAt, failKind)
    IN  /\ ~crashed
        /\ a # b
        /\ failAt \in 0 .. (num_layers(sb2) - 1)
        /\ r.raised
        /\ filters' = Store(filters, a, r.sb)
        /\ pure' = [pure EXCEPT ![a] = FALSE]
        /\ last' = Call("merge!", a, b, TRUE)
        /\ UNCHANGED <<added, adds, merged, crashed>>

\* A call is offered while fewer than maxCalls have been made ...
Offered(maxCalls) ==
    /\ calls < maxCalls
    /\ calls' = calls + 1

\* ... and if it leaves every filter with at most maxLayers layers.
Within(maxLayers) == \A f \in Filters : num_layers(filters'[f]) <= maxLayers

Next ==
    \/ \E f \in Filters, e \in Elems :
          Offered(MaxCalls) /\ Add(f, e) /\ Within(MaxLayers)
    \/ \E f \in Filters, e \in Elems, alloc \in {"layer", "realloc"} :
          Offered(MaxCalls) /\ AddFail(f, e, alloc) /\ Within(MaxLayers)
    \/ \E f \in Filters, e \in Elems :
          Offered(MaxCalls) /\ AddNoLayer(f, e) /\ Within(MaxLayers)
    \/ \E f \in Filters :
          Offered(MaxCalls) /\ Clear(f) /\ Within(MaxLayers)
    \/ \E f \in Filters, alloc \in {"layer", "realloc"} :
          Offered(MaxCalls) /\ ClearFail(f, alloc) /\ Within(MaxLayers)
    \/ \E a \in Filters, b \in Filters :
          Offered(MaxCalls) /\ Merge(a, b) /\ Within(MaxLayers)
    \/ \E a \in Filters, b \in Filters, failAt \in 0 .. MaxLayers,
          failKind \in {"copy", "realloc"} :
          Offered(MaxCalls) /\ MergeFail(a, b, failAt, failKind) /\ Within(MaxLayers)

Spec == Init /\ [][Next]_vars

\* The growth schedule: filter 2 is filled with one element, the filters are
\* merged into each other, and no allocation fails.
GrowthElem == <<97>>
GrowthFilters == {2}

NextGrowth ==
    \/ \E f \in GrowthFilters :
          Offered(MaxCallsG) /\ Add(f, GrowthElem) /\ Within(MaxLayersG)
    \/ \E a \in Filters, b \in Filters :
          Offered(MaxCallsG) /\ Merge(a, b) /\ Within(MaxLayersG)

SpecGrowth == Init /\ [][NextGrowth]_vars

(***************************************************************************)
(* The calls that return: no allocation fails.                             *)
(***************************************************************************)
NextOk ==
    \/ \E f \in Filters, e \in Elems :
          Offered(MaxCalls) /\ Add(f, e) /\ Within(MaxLayers)
    \/ \E f \in Filters :
          Offered(MaxCalls) /\ Clear(f) /\ Within(MaxLayers)
    \/ \E a \in Filters, b \in Filters :
          Offered(MaxCalls) /\ Merge(a, b) /\ Within(MaxLayers)

SpecOk == Init /\ [][NextOk]_vars

(***************************************************************************)
(* merge! with the receiver as its argument.                               *)
(***************************************************************************)
\* a.merge!(a): the call ends when an allocation fails, and raises.  (On a
\* filter without layers the loop is not entered and the call returns.)
MergeSelf(a, failAt, failKind) ==
    LET sb == filters[a]
        r  == merge_self_loop(sb, 0, failAt, failKind)
    IN  /\ ~crashed
        /\ filters' = Store(filters, a, r.sb)
        /\ merged' = [merged EXCEPT ![a] = IF r.raised THEN @ ELSE @ + bloom_count(sb)]
        /\ pure' = [pure EXCEPT ![a] = FALSE]
        /\ last' = Call("merge!", a, a, r.raised)
        /\ UNCHANGED <<added, adds, crashed>>

NextSelf ==
    \/ \E f \in Filters, e \in Elems :
          Offered(MaxCalls) /\ Add(f, e) /\ Within(MaxLayers)
    \/ \E a \in Filters, failAt \in 0 .. MaxLayers, failKind \in {"copy", "realloc"} :
          Offered(MaxCalls) /\ MergeSelf(a, failAt, failKind) /\ Within(MaxLayers)

SpecSelf == Init /\ [][NextSelf]_vars

(***************************************************************************)
(* The methods that only read.  A method of the extension runs under the   *)
(* interpreter lock from its first line to its last, so the calls several  *)
(* threads make on a filter happen one after the other, in any order.      *)
(***************************************************************************)
\* The call self.op(arg) returning result.
Answer(op, self, arg, result) ==
    [Call(op, self, arg, FALSE) EXCEPT !.result = result]

\* Mutant of Include: the layer that has the element is moved to the end of
\* the list, where the next lookup tries it first.
Include_promote(f, e) ==
    LET sb    == filters[f]
        n     == num_layers(sb)
        found == {i \in 1 .. n : layer_include(sb.layers[i], e)}
        hit   == CHOOSE i \in found : \A j \in found : j <= i
    IN  /\ ~crashed
        /\ filters' = IF found = {} THEN filters
                      ELSE [filters EXCEPT ![f].layers =
                              [i \in 1 .. n |->
                                 IF i = hit THEN sb.layers[n]
                                 ELSE IF i = n THEN sb.layers[hit]
                                 ELSE sb.layers[i]]]
        /\ last' = Answer("include?", f, e, bloom_include(sb, e))
        /\ UNCHANGED <<added, adds, merged, pure, crashed>>

\* filter.include?(e) returns true or false.
Include(f, e) ==
    /\ ~crashed
    /\ last' = Answer("include?", f, e, bloom_include(filters[f], e))
    /\ UNCHANGED <<filters, added, adds, merged, pure, crashed>>

\* filter.count returns total_count.
Count(f) ==
    /\ ~crashed
    /\ last' = Answer("count", f, 0, bloom_count(filters[f]))
    /\ UNCHANGED <<filters, added, adds, merged, pure, crashed>>

\* filter.num_layers returns num_layers.
NumLayers(f) ==
    /\ ~crashed
    /\ last' = Answer("num_layers", f, 0, bloom_num_layers(filters[f]))
    /\ UNCHANGED <<filters, added, adds, merged, pure, crashed>>

\* filter.stats returns the hash of statistics.
Stats(f) ==
    /\ ~crashed
    /\ last' = Answer("stats", f, 0, bloom_stats(filters[f]))
    /\ UNCHANGED <<filters, added, adds, merged, pure, crashed>>

NextReads ==
    \/ \E f \in Filters, e \in Elems :
          Offered(MaxCalls) /\ Add(f, e) /\ Within(MaxLayers)
    \/ \E f \in Filters, e \in Elems :
          Offered(MaxCalls) /\ Include(f, e) /\ Within(MaxLayers)
    \/ \E f \in Filters :
          Offered(MaxCalls) /\ Count(f) /\ Within(MaxLayers)
    \/ \E f \in Filters :
          Offered(MaxCalls) /\ NumLayers(f) /\ Within(MaxLayers)
    \/ \E f \in Filters :
          Offered(MaxCalls) /\ Stats(f) /\ Within(MaxLayers)

SpecReads == Init /\ [][NextReads]_vars

(***************************************************************************)
(* Filters with a tightening of 0.001, whose layers reach the floor of the *)
(* error rate soon, grown by add.                                          *)
(***************************************************************************)
BudgetRates == {1, 10}
BudgetFilters == {1}
MaxCallsB == 30
MaxLayersB == 6

InitBudget ==
    /\ \E error_rate \in BudgetRates :
          filters = Constructed([f \in Filters |->
                                   [error_rate |-> error_rate, tightening |-> 1,
                                    initial_capacity |-> 1]])
    /\ NoHistory

NextBudget ==
    \E f \in BudgetFilters, e \in Elems :
       Offered(MaxCallsB) /\ Add(f, e) /\ Within(MaxLayersB)

SpecBudget == InitBudget /\ [][NextBudget]_vars

(***************************************************************************)
(* The example of the README: a filter of initial_capacity 1024 with the   *)
(* default error_rate and tightening, filled by add.                       *)
(***************************************************************************)
ReadmeConfig == [error_rate |-> 10, tightening |-> 850, initial_capacity |-> 1024]
ReadmeFilters == {1}
MaxCallsR == 15361
MaxLayersR == 5

InitReadme ==
    /\ filters = Constructed([f \in Filters |-> ReadmeConfig])
    /\ NoHistory

NextReadme ==
    \E f \in ReadmeFilters :
       Offered(MaxCallsR) /\ Add(f, GrowthElem) /\ Within(MaxLayersR)

SpecReadme == InitReadme /\ [][NextReadme]_vars

(***************************************************************************)
(* Two filters constructed with the same arguments and given the same      *)
(* calls of add: filter 1 is called first, filter 2 follows with the same  *)
(* element.                                                                *)
(***************************************************************************)
MaxCallsT == 12

InitTwin ==
    /\ \E c \in Filters : filters = Constructed([f \in Filters |-> Config[c]])
    /\ NoHistory

NextTwin ==
    \/ \E e \in Elems :
          Offered(MaxCallsT) /\ adds[1] = adds[2] /\ Add(1, e) /\ Within(MaxLayers)
    \/ Offered(MaxCallsT) /\ adds[2] < adds[1] /\ Add(2, last.arg) /\ Within(MaxLayers)

SpecTwin == InitTwin /\ [][NextTwin]_vars

(***************************************************************************)
(* Construction.  The arguments Filter.new is called with: error_rate and  *)
(* tightening in thousandths, initial_capacity an Integer of Ruby.         *)
(***************************************************************************)
ErrorRates == {-5, 0, 1, 10, 1000, 2000}
Capacities == {-2, -1, 0, 1, 3}
Tightenings == {-5, 0, 500, 850, 1000}
NewFilters == {1}

\* f = Filter.new(error_rate:, initial_capacity:, tightening:): bloom_alloc,
\* then bloom_initialize on the object.  When initialize raises, f keeps no
\* filter and the object stays as initialize has left it.
New(f, error_rate, initial_capacity, tightening, alloc, cast) ==
    LET r == bloom_initialize(bloom_alloc(f), error_rate, initial_capacity,
                              tightening, alloc, cast)
    IN  /\ ~crashed
        /\ num_layers(filters[f]) = 0
        /\ filters' = Store(filters, f, r.sb)
        /\ last' = [ op |-> "new", self |-> f,
                     arg |-> <<error_rate, initial_capacity, tightening>>,
                     raised |-> r.raised, n0 |-> 0, count0 |-> 0,
                     result |-> r.error ]
        /\ UNCHANGED <<added, adds, merged, pure, crashed>>

InitNew ==
    /\ filters = [f \in Filters |-> bloom_alloc(f)]
    /\ NoHistory

NextNew ==
    \E f \in NewFilters, error_rate \in ErrorRates, initial_capacity \in Capacities,
       tightening \in Tightenings, alloc \in {"ok", "layer", "realloc"},
       cast \in {"zero", "saturated"} :
       Offered(MaxCalls) /\ New(f, error_rate, initial_capacity, tightening, alloc, cast)
                         /\ Within(MaxLayers)

SpecNew == InitNew /\ [][NextNew]_vars

(***************************************************************************)
(* Properties.                                                             *)
(***************************************************************************)
RECURSIVE SumCounts(_, _)
SumCounts(layers, i) ==
    IF i = 0 THEN 0 ELSE layers[i].count + SumCounts(layers, i - 1)

\* The step just taken is the call self.op(...) returning (or raising).
Returned(op) == last'.op = op /\ ~last'.raised /\ ~crashed'
Raised(op) == last'.op = op /\ last'.raised /\ ~crashed'

\* C1: no false negatives.  Every element add has inserted into a filter
\* since the last clear call on it is reported by include? in every later
\* state: after further adds, layer growth, merges and failed calls.
NoFalseNegatives ==
    \A f \in Filters : \A e \in added[f] : bloom_include(filters[f], e)

\* An added element is found in an older layer only, after growth and a merge.
NoFalseNegativesWitness ==
    \E f \in Filters : \E e \in added[f] :
        /\ num_layers(filters[f]) >= 3
        /\ merged[f] >= 1
        /\ bloom_include(filters[f], e)
        /\ ~layer_include(filters[f].layers[num_layers(filters[f])], e)

\* C2, as stated: count() is the number of successful add calls since the
\* last clear call (or construction).
CountIsAdds ==
    \A f \in Filters : bloom_count(filters[f]) = adds[f]

\* C2, amended: count() is the number of successful add calls on the filter
\* since the last clear call (or construction) plus the count() of every
\* filter merged into it by a successful merge! since then.
CountIsAddsPlusMerged ==
    \A f \in Filters : bloom_count(filters[f]) = adds[f] + merged[f]

CountIsAddsPlusMergedWitness ==
    \E f \in Filters :
        /\ adds[f] >= 1
        /\ merged[f] >= 1
        /\ num_layers(filters[f]) >= 3
        /\ bloom_count(filters[f]) = adds[f] + merged[f]

\* C3: after a successful clear the filter has one layer, of capacity
\* initial_capacity, with count 0 and no bit set, count() is 0 and include?
\* is false for every element.
ClearResets ==
    (last.op = "clear" /\ ~last.raised) =>
        LET sb == filters[last.self]
        IN  /\ bloom_num_layers(sb) = 1
            /\ bloom_count(sb) = 0
            /\ sb.layers[1].capacity = Config[last.self].initial_capacity
            /\ sb.layers[1].count = 0
            /\ sb.layers[1].bits = {}
            /\ \A e \in Elems : ~bloom_include(sb, e)

\* clear has returned on a filter that had grown and had merged layers.
ClearResetsWitness ==
    /\ last.op = "clear" /\ ~last.raised
    /\ last.n0 >= 3
    /\ last.count0 >= 2

\* C4: a successful a.merge!(b), a # b, keeps every element include? reported
\* for a or for b, and sums count() and num_layers().
MergePreserves ==
    [][ Returned("merge!") =>
          LET a == last'.self
              b == last'.arg
          IN  /\ \A e \in Elems :
                    (bloom_include(filters[a], e) \/ bloom_include(filters[b], e))
                        => bloom_include(filters'[a], e)
              /\ bloom_count(filters'[a]) = bloom_count(filters[a]) + bloom_count(filters[b])
              /\ bloom_num_layers(filters'[a]) =
                    bloom_num_layers(filters[a]) + bloom_num_layers(filters[b]) ]_vars

\* After a.merge!(b), a reports an element only a had and one only b had.
MergePreservesWitness ==
    /\ last.op = "merge!" /\ ~last.raised
    /\ \E x \in added[last.self] : \E y \in added[last.arg] :
          /\ x \notin added[last.arg]
          /\ y \notin added[last.self]
          /\ ~bloom_include(filters[last.arg], x)
          /\ bloom_include(filters[last.self], x)
          /\ bloom_include(filters[last.self], y)
    /\ last.n0 >= 2

\* A successful add on a filter that has a layer: what it does to the layers.
GrowthTriggerStep ==
    (Returned("add") /\ num_layers(filters[last'.self]) >= 1) =>
        LET sb  == filters[last'.self]
            sb2 == filters'[last'.self]
            n   == num_layers(sb)
            m   == num_layers(sb2)
            full == sb.layers[n].count >= sb.layers[n].capacity
        IN  /\ m = IF full THEN n + 1 ELSE n
            /\ \A i \in 1 .. (m - 1) : sb2.layers[i] = sb.layers[i]
            /\ layer_include(sb2.layers[m], last'.arg)
            /\ sb2.layers[m].count = IF full THEN 1 ELSE sb.layers[n].count + 1

\* A filter that has only been added to, initial_capacity + 1 times.
GrowthTriggerFresh ==
    \A f \in Filters :
        (pure[f] /\ adds[f] = Config[f].initial_capacity + 1) =>
            /\ bloom_num_layers(filters[f]) = 2
            /\ filters[f].layers[1].count = Config[f].initial_capacity
            /\ filters[f].layers[2].count = 1

\* C5: a successful add on a filter with layers appends exactly one layer if
\* the last layer is full, and none otherwise; the element goes into the
\* layer that is last afterwards and every other layer is unchanged.  A
\* filter that has only been added to, initial_capacity + 1 times, has two
\* layers holding initial_capacity elements and one element.
GrowthTrigger == [][GrowthTriggerStep]_vars /\ []GrowthTriggerFresh

\* The add that follows initial_capacity adds on a fresh filter has grown it.
GrowthTriggerWitness ==
    /\ last.op = "add" /\ ~last.raised
    /\ pure[last.self]
    /\ adds[last.self] = Config[last.self].initial_capacity + 1
    /\ last.n0 = 1
    /\ bloom_num_layers(filters[last.self]) = 2

\* An add that appends a layer: the capacity of the new layer.
GrowthScheduleStep ==
    (/\ Returned("add")
     /\ num_layers(filters[last'.self]) >= 1
     /\ num_layers(filters'[last'.self]) = num_layers(filters[last'.self]) + 1) =>
        LET n    == num_layers(filters[last'.self])
            prev == filters[last'.self].layers[n].capacity
            new  == filters'[last'.self].layers[n + 1].capacity
        IN  new = IF n \in 1 .. 3 THEN prev * 2
                  ELSE IF n \in 4 .. 7 THEN (prev * 7) \div 4
                  ELSE IF n \in 8 .. 11 THEN (prev * 3) \div 2
                  ELSE (prev * 5) \div 4

\* The first layer of a filter that is never cleared.
GrowthScheduleFirst ==
    \A f \in Filters : filters[f].layers[1].capacity = Config[f].initial_capacity

AddFailLeavesFilter ==
    [][ Raised("add") => filters' = filters ]_vars

\* add has raised on a filter that had grown before.
AddFailLeavesFilterWitness ==
    /\ last.op = "add" /\ last.raised /\ ~crashed
    /\ last.n0 >= 2
    /\ last.count0 >= 2
    /\ num_layers(filters[last.self]) = last.n0
    /\ bloom_count(filters[last.self]) = last.count0

\* C8: after a clear that raises, the filter still has at least one layer.
ClearFailKeepsLayer ==
    (last.op = "clear" /\ last.raised) => bloom_num_layers(filters[last.self]) >= 1

\* C9: after a merge! that raises, no layer of the failed merge remains and
\* total_count is the sum of the counts of the layers.
MergeFailRollsBack ==
    (last.op = "merge!" /\ last.raised) =>
        /\ bloom_num_layers(filters[last.self]) = last.n0
        /\ bloom_count(filters[last.self]) =
              SumCounts(filters[last.self].layers, num_layers(filters[last.self]))

\* C10: every filter has at least one layer at all times.
LayersNonEmpty ==
    \A f \in Filters : bloom_num_layers(filters[f]) >= 1

\* C11: Filter.new raises ArgumentError and creates no layer whenever
\* error_rate is not in (0, 1), initial_capacity is zero or negative, or
\* tightening is not in (0, 1).
NewValidates ==
    (/\ last.op = "new" /\ last.self # 0
     /\ \/ last.arg[1] <= 0 \/ last.arg[1] >= 1000
        \/ last.arg[2] <= 0
        \/ last.arg[3] <= 0 \/ last.arg[3] >= 1000) =>
        /\ last.result = "ArgumentError"
        /\ num_layers(filters[last.self]) = 0

\* A call on a filter leaves every other filter as it was: its layers, their
\* bits and counts and its total_count, hence every answer it gives.
OwnershipStep ==
    \A g \in Filters : g # last'.self => filters'[g] = filters[g]

\* No layer is in two filters, or twice in one.
Exclusive ==
    \A f \in Filters, g \in Filters :
        \A i \in 1 .. num_layers(filters[f]), j \in 1 .. num_layers(filters[g]) :
            (f # g \/ i # j) => filters[f].layers[i].at # filters[g].layers[j].at

\* C12: merge! copies the layers.  a.merge!(b), a # b, leaves b unchanged,
\* no layer is ever held by two filters, and afterwards no add or clear on a
\* changes b or any answer of b, nor one on b any of a.
DeepCopy == [][OwnershipStep]_vars /\ []Exclusive

\* After a.merge!(b), add has written to the layer of b that a has a copy
\* of: the copy in a still has the count it was made with.
DeepCopyWitness ==
    /\ last.op = "add" /\ ~last.raised /\ ~crashed
    /\ num_layers(filters[last.self]) = last.n0
    /\ \E a \in Filters \ {last.self} :
          /\ merged[a] >= 1
          /\ \E i \in 1 .. num_layers(filters[a]) :
                LET mine == filters[last.self].layers[last.n0]
                    copy == filters[a].layers[i]
                IN  /\ copy.capacity = mine.capacity
                    /\ copy.size = mine.size
                    /\ copy.count >= 1
                    /\ copy.count < mine.count
                    /\ copy.bits # mine.bits

\* A layer without its address: what a copy has in common with its source.
Contents(layer) ==
    [ size |-> layer.size, capacity |-> layer.capacity, count |-> layer.count,
      num_hashes |-> layer.num_hashes, bits |-> layer.bits ]

\* a.merge!(b) has returned: the layers of a are those it had, then copies of
\* the layers of b in the order of b.
AppendStep ==
    Returned("merge!") =>
        LET a  == filters[last'.self]
            b  == filters[last'.arg]
            a2 == filters'[last'.self]
        IN  /\ num_layers(a2) = num_layers(a) + num_layers(b)
            /\ \A i \in 1 .. num_layers(a) : a2.layers[i] = a.layers[i]
            /\ \A i \in 1 .. num_layers(b) :
                  Contents(a2.layers[num_layers(a) + i]) = Contents(b.layers[i])

\* merge! of two different filters returns unless an allocation fails,
\* whatever the parameters of the two filters are.
NeverRejects ==
    \A a \in Filters, b \in Filters :
        a # b => ~bloom_merge(filters[a], filters[b], -1, "copy").raised

\* C13: a.merge!(b), a # b, succeeds for filters of any error_rate,
\* tightening and initial_capacity; it keeps the layers of a in place and
\* appends the layers of b after them in the order of b, each copy with the
\* size, capacity, count, num_hashes and bits of its source.
StructuralAppend == [][AppendStep]_vars /\ []NeverRejects

\* merge! has appended two or more layers of a filter with other parameters,
\* of different capacities and another hash count, to a filter that had two
\* or more.
StructuralAppendWitness ==
    /\ last.op = "merge!" /\ ~last.raised /\ ~crashed
    /\ last.n0 >= 2
    /\ filters[last.self].error_rate # filters[last.arg].error_rate
    /\ filters[last.self].tightening # filters[last.arg].tightening
    /\ filters[last.self].initial_capacity # filters[last.arg].initial_capacity
    /\ num_layers(filters[last.arg]) >= 2
    /\ num_layers(filters[last.self]) = last.n0 + num_layers(filters[last.arg])
    /\ LET a == filters[last.self]
           b == filters[last.arg]
       IN  /\ Contents(a.layers[last.n0 + 1]) = Contents(b.layers[1])
           /\ Contents(a.layers[last.n0 + 2]) = Contents(b.layers[2])
           /\ b.layers[1].capacity # b.layers[2].capacity
           /\ b.layers[1].count >= 1
           /\ a.layers[1].num_hashes # a.layers[last.n0 + 1].num_hashes

\* C14: every call ends after a bounded number of steps.  The loops of add,
\* include?, clear and stats run over the layers the filter has; that of
\* merge! makes at most one iteration, and appends at most one layer, for
\* each layer its argument has when it is called, also for a.merge!(a).
MergeBounded ==
    last.op = "merge!" =>
        num_layers(filters[last.self]) - last.n0
            <= IF last.arg = last.self THEN last.n0
               ELSE num_layers(filters[last.arg])

ReadResult(op, sb, arg) ==
    IF op = "include?" THEN bloom_include(sb, arg)
    ELSE IF op = "count" THEN bloom_count(sb)
    ELSE IF op = "num_layers" THEN bloom_num_layers(sb)
    ELSE bloom_stats(sb)

RECURSIVE SumRates(_, _)
SumRates(sb, n) ==
    IF n = 0 THEN DecOfThousandths(0)
    ELSE DecAdd(SumRates(sb, n - 1), layer_target_rate(sb, n - 1))

\* C17: for a filter grown only by add, the error rates its layers were
\* sized for, error_rate * (1 - tightening) * tightening^i and at least
\* 1e-15, add up to no more than error_rate, however many layers there are.
ErrorBudget ==
    \A f \in Filters :
        pure[f] =>
            ~DecLess(DecOfThousandths(filters[f].error_rate),
                     SumRates(filters[f], num_layers(filters[f])))

\* The capacities of the README's example growth pattern, layer 0 first.
ReadmeCapacities == <<1024, 2048, 3584, 5376, 6720>>

\* C18: a filter of initial_capacity 1024 that grows only by add has layers
\* of capacity 1024, 2048, 3584, 5376 and 6720.
ReadmePattern ==
    \A f \in Filters :
        (pure[f] /\ filters[f].initial_capacity = 1024) =>
            \A i \in 1 .. num_layers(filters[f]) :
                i <= Len(ReadmeCapacities) =>
                    filters[f].layers[i].capacity = ReadmeCapacities[i]

\* C19: after any sequence of calls of add, clear and merge! that have all
\* returned, total_count is the sum of the counts of the layers.
TotalIsSum ==
    \A f \in Filters :
        filters[f].total_count = SumCounts(filters[f].layers, num_layers(filters[f]))

\* merge! has returned on a filter that held elements, appending layers that
\* hold elements, to three layers or more.
TotalIsSumWitness ==
    /\ last.op = "merge!" /\ ~last.raised
    /\ last.count0 >= 1
    /\ filters[last.arg].total_count >= 1
    /\ num_layers(filters[last.self]) >= 3
    /\ filters[last.self].total_count = last.count0 + filters[last.arg].total_count

\* C20: no layer of any filter ever holds more elements than its capacity,
\* after any calls of add, clear and merge!, failed ones included.
CountWithinCapacity ==
    \A f \in Filters :
        \A i \in 1 .. num_layers(filters[f]) :
            filters[f].layers[i].count <= filters[f].layers[i].capacity

\* add has found the last layer full, in a filter that has merged layers,
\* and has put the element into a new layer.
CountWithinCapacityWitness ==
    /\ last.op = "add" /\ ~last.raised /\ ~crashed
    /\ last.n0 >= 2
    /\ merged[last.self] >= 1
    /\ num_layers(filters[last.self]) = last.n0 + 1
    /\ filters[last.self].layers[last.n0].count
          = filters[last.self].layers[last.n0].capacity
    /\ filters[last.self].layers[last.n0 + 1].count = 1

\* A layer add does not write to any more: one that is full or not the last.
Frozen(sb, i) == i < num_layers(sb) \/ layer_is_full(sb.layers[i])

\* add has returned on a filter with layers: every layer but the one that is
\* last afterwards is as it was, and that one has its parameters, one
\* element more and the bits it had among its bits.
LastLayerStep ==
    (Returned("add") /\ num_layers(filters[last'.self]) >= 1) =>
        LET sb  == filters[last'.self]
            sb2 == filters'[last'.self]
            n   == num_layers(sb)
            m   == num_layers(sb2)
            old == IF m = n THEN sb.layers[n]
                   ELSE [sb2.layers[m] EXCEPT !.count = 0, !.bits = {}]
        IN  /\ m \in {n, n + 1}
            /\ \A i \in 1 .. n : i # m => sb2.layers[i] = sb.layers[i]
            /\ sb2.layers[m].size = old.size
            /\ sb2.layers[m].capacity = old.capacity
            /\ sb2.layers[m].num_hashes = old.num_hashes
            /\ sb2.layers[m].count = old.count + 1
            /\ old.bits \subseteq sb2.layers[m].bits
            /\ sb2.layers[m].bits # {}

\* No call but clear changes or removes a layer that is full or not the last.
FrozenStep ==
    (last'.op # "clear" /\ ~crashed') =>
        \A f \in Filters : \A i \in 1 .. num_layers(filters[f]) :
            Frozen(filters[f], i) =>
                /\ i <= num_layers(filters'[f])
                /\ filters'[f].layers[i] = filters[f].layers[i]

\* include? reports what such a layer holds.
Consulted ==
    \A f \in Filters, e \in Elems : \A i \in 1 .. num_layers(filters[f]) :
        (Frozen(filters[f], i) /\ layer_include(filters[f].layers[i], e))
            => bloom_include(filters[f], e)

\* C21: only the last layer is written.  An add changes the bits and the
\* count of the layer that is last after it and leaves every other layer as
\* it was; a layer that is full or no longer the last keeps its bits and
\* count until clear, and include? still asks it.
OnlyLastWritten == [][LastLayerStep /\ FrozenStep]_vars /\ []Consulted

\* add has written to the last of two or more layers without growing the
\* filter, while an older layer that is not full holds an element the last
\* layer does not hold and include? reports.
OnlyLastWrittenWitness ==
    /\ last.op = "add" /\ ~last.raised /\ ~crashed
    /\ last.n0 >= 2
    /\ num_layers(filters[last.self]) = last.n0
    /\ \E i \in 1 .. (last.n0 - 1) : \E e \in Elems :
          /\ ~layer_is_full(filters[last.self].layers[i])
          /\ filters[last.self].layers[i].count >= 1
          /\ layer_include(filters[last.self].layers[i], e)
          /\ ~layer_include(filters[last.self].layers[last.n0], e)
          /\ bloom_include(filters[last.self], e)

\* C22: whenever add appends a layer, also in a filter that has merged
\* layers, the capacity of the new layer is strictly larger than that of the
\* layer that was last before.
GrowsStrictly ==
    [][ (/\ Returned("add")
         /\ num_layers(filters[last'.self]) >= 1
         /\ num_layers(filters'[last'.self]) = num_layers(filters[last'.self]) + 1) =>
            LET n == num_layers(filters[last'.self])
            IN  filters'[last'.self].layers[n + 1].capacity
                   > filters[last'.self].layers[n].capacity ]_vars

\* The number h1 + i * h2 of two 32-bit values and i < 2^15, as an integer:
\* how often it holds 2^32, and what it leaves when divided by bit_count.
Wraps(h1, h2, i) ==
    LET lo == h1[2] + (i * h2[2])
    IN  (h1[1] + (i * h2[1]) + (lo \div W16)) \div W16

ExactPosition(h1, h2, i, bit_count) ==
    (Mod32(h1, bit_count) + (i * Mod32(h2, bit_count))) % bit_count

\* The same for (h1 + i * h2) mod 2^32: the number less Wraps times 2^32.
WrappedPosition(h1, h2, i, bit_count) ==
    LET two32 == MulMod(W16 % bit_count, W16 % bit_count, bit_count)
    IN  (ExactPosition(h1, h2, i, bit_count)
           + (Wraps(h1, h2, i) * (bit_count - two32))) % bit_count

\* The i-th position: of the sum reduced to 32 bits if wrap, else of the sum.
Position(wrap, h1, h2, i, bit_count) ==
    IF wrap THEN WrappedPosition(h1, h2, i, bit_count)
    ELSE ExactPosition(h1, h2, i, bit_count)

\* The positions of the element e in a layer.
Positions(wrap, e, layer) ==
    { Position(wrap, Hash1[e], Hash2[e], i, layer.size * 8) :
         i \in 0 .. (layer.num_hashes - 1) }

\* add has returned: the bits it has set are the positions of its element;
\* include? has returned: true if and only if some layer has them all set.
PositionsStep(wrap) ==
    /\ (Returned("add") /\ num_layers(filters[last'.self]) >= 1) =>
          LET sb  == filters[last'.self]
              sb2 == filters'[last'.self]
              m   == num_layers(sb2)
              old == IF m = num_layers(sb) THEN sb.layers[m].bits ELSE {}
          IN  sb2.layers[m].bits = old \cup Positions(wrap, last'.arg, sb2.layers[m])
    /\ Returned("include?") =>
          last'.result =
             \E i \in 1 .. num_layers(filters[last'.self]) :
                Positions(wrap, last'.arg, filters[last'.self].layers[i])
                   \subseteq filters[last'.self].layers[i].bits

\* Every bit that is set is a bit of its layer.
PositionsInRange ==
    \A f \in Filters : \A i \in 1 .. num_layers(filters[f]) :
        filters[f].layers[i].bits \subseteq 0 .. ((filters[f].layers[i].size * 8) - 1)

\* C23, as stated: the i-th position add sets and include? tests is
\* (h1 + i * h2) mod bit_count, also where h1 + i * h2 exceeds 2^32 - 1.
ProbePositionsExact == [][PositionsStep(FALSE)]_vars /\ []PositionsInRange

\* C23, amended: the i-th position add sets and include? tests is
\* ((h1 + i * h2) mod 2^32) mod bit_count, with bit_count = size * 8; it lies
\* in [0, bit_count), and add and include? use the same positions.
ProbePositions == [][PositionsStep(TRUE)]_vars /\ []PositionsInRange

\* add has written to a layer whose number of bits does not divide 2^32: a
\* position it has set is that of a sum beyond 2^32 - 1 and is not the
\* remainder of the sum itself, which it has left clear.
ProbePositionsWitness ==
    /\ last.op = "add" /\ ~last.raised /\ ~crashed
    /\ LET layer == filters[last.self].layers[num_layers(filters[last.self])]
           n     == layer.size * 8
           h1    == Hash1[last.arg]
           h2    == Hash2[last.arg]
       IN  /\ MulMod(W16 % n, W16 % n, n) # 0
           /\ \E i \in 0 .. (layer.num_hashes - 1) :
                 /\ Wraps(h1, h2, i) >= 1
                 /\ WrappedPosition(h1, h2, i, n) \in layer.bits
                 /\ ExactPosition(h1, h2, i, n) \notin layer.bits

\* The size, capacity and num_hashes of a layer: what it is created with.
Parameters(layer) ==
    [ size |-> layer.size, capacity |-> layer.capacity, num_hashes |-> layer.num_hashes ]

\* No call but clear changes the parameters of a layer the filter has.
ParametersStep ==
    (last'.op # "clear" /\ ~crashed') =>
        \A f \in Filters : \A i \in 1 .. num_layers(filters[f]) :
            /\ i <= num_layers(filters'[f])
            /\ Parameters(filters'[f].layers[i]) = Parameters(filters[f].layers[i])

\* Every layer has 64 bits or more and 1 to 20 hashes.
ParametersInRange ==
    \A f \in Filters : \A i \in 1 .. num_layers(filters[f]) :
        /\ filters[f].layers[i].size * 8 >= MIN_BITS
        /\ filters[f].layers[i].num_hashes \in MIN_HASHES .. MAX_HASHES

\* C24: every layer of every filter, whether created by initialize, growth
\* or clear or copied by merge!, has bit_count = size * 8 >= 64 and
\* 1 <= num_hashes <= 20, and its size, capacity and num_hashes never change
\* once it is created.
LayerParameters == [][ParametersStep]_vars /\ []ParametersInRange

\* -ln of the error rate scalable_add_layer sizes layers[index] of sb for, in
\* millionths.
TargetNegLn(sb, index) ==
    LET rate == layer_error_rate(sb.error_rate, sb.tightening, index)
    IN  IF rate > FPR_FLOOR THEN FPR_FLOOR ELSE rate

\* x = -capacity * ln(rate) / ln(2)^2 as <<its integer part, the remainder of
\* the division>>, and y = (bit_count / capacity) * ln(2) as the integer part
\* of 2,000,000 * y.
SizingX(capacity, negln) == MulDiv(capacity, negln, LN2_SQ)
SizingY(bit_count, capacity) == MulDiv(bit_count, 2 * LN2, capacity)[1]

Floor(x) == x[1]
Ceiling(x) == IF x[2] = 0 THEN x[1] ELSE x[1] + 1
Truncated(y) == y \div 2000000
Nearest(y) == (y + 1000000) \div 2000000

\* The layer has the size and the hashes of a layer of its capacity created
\* for the rate: with the ceiling of x and the integer nearest to y if
\* rounded, else with both truncated.
SizedAs(layer, negln, rounded) ==
    LET x         == SizingX(layer.capacity, negln)
        b         == IF rounded THEN Ceiling(x) ELSE Floor(x)
        bit_count == IF b < MIN_BITS THEN MIN_BITS ELSE b
        y         == SizingY(bit_count, layer.capacity)
        k         == IF rounded THEN Nearest(y) ELSE Truncated(y)
    IN  /\ layer.size = (bit_count + 7) \div 8
        /\ layer.num_hashes = IF k < MIN_HASHES THEN MIN_HASHES
                              ELSE IF k > MAX_HASHES THEN MAX_HASHES
                              ELSE k

\* add has appended a layer, or clear has created the first one.
SizingStep(rounded) ==
    LET sb  == filters[last'.self]
        sb2 == filters'[last'.self]
        n   == num_layers(sb)
    IN  /\ (Returned("add") /\ n >= 1 /\ num_layers(sb2) = n + 1) =>
              SizedAs(sb2.layers[n + 1], TargetNegLn(sb, n), rounded)
        /\ Returned("clear") =>
              SizedAs(sb2.layers[1], TargetNegLn(sb2, 0), rounded)

\* The layer initialize has created.
SizingFirst(rounded) ==
    \A f \in Filters :
        pure[f] => SizedAs(filters[f].layers[1], TargetNegLn(filters[f], 0), rounded)

====
